---- MODULE Spec2Model ----
(***************************************************************************)
(* Interaction state and dispatch protocol of the pokedex bot              *)
(* (package command): the reflection-driven binary codec behind button     *)
(* custom IDs, the option decoder, and the pagination buttons.             *)
(***************************************************************************)
EXTENDS Integers, Sequences, FiniteSets, TLC

VARIABLES pc, typ, structure, cmdName, uuid, data, cut, result, options, hasNext,
          bot, message, effects, request, rows, startup

vars == <<pc, typ, structure, cmdName, uuid, data, cut, result, options, hasNext,
          bot, message, effects, request, rows, startup>>

\* the variables of the bot: its registry, models and emoji cache, the
\* message on display, the side effects of the request at hand, the request
\* itself, the number of rows the query matches, and the goroutines of
\* Bot.initialize
world == <<bot, message, effects, request, rows, startup>>

\* no bot is running
Offline ==
    /\ bot = [commands |-> <<>>, models |-> <<>>, emojis |-> {}]
    /\ message = [name |-> ""]
    /\ effects = <<>>
    /\ request = [type |-> "none"]
    /\ rows = 0
    /\ startup = [init |-> "off"]

(***************************************************************************)
(* Go values.                                                              *)
(*   int     a 64-bit integer x, kept as the pair (q, r) with              *)
(*           x = q * 2^32 + r and r in the signed 32-bit range, so that    *)
(*           int32(x) = r and x fits in 32 bits iff q = 0                  *)
(*   bool    a BOOLEAN                                                     *)
(*   string  the sequence of its bytes                                     *)
(*   *T      <<>> for nil, <<v>> for a pointer to v                        *)
(*   struct  the tuple of its field values, in declared order              *)
(* Types (reflect.Type) are records: k the kind, e the element types (the  *)
(* pointee of a pointer, the fields of a struct), tags the `option:"..."`  *)
(* tag of each field, ft whether the type is one of fieldTypes.            *)
(* The variable typ names the static type at hand: a the action type       *)
(* around the options ("paginator", "followUp", or "" for the options      *)
(* alone) and T the option type of the command.                            *)
(***************************************************************************)

\* ---- bounds of the inputs ----
MaxShort == 2
MaxNodes == 2

\* ---- program constants ----
MaxUint8 == 255
ActionP == 112
ActionF == 102

MaxInt32 == 2147483647
MinInt32 == -MaxInt32 - 1

GoInt(q, r) == [q |-> q, r |-> r]
Small(n) == GoInt(0, n)

TInt == [k |-> "int", n |-> "int", e |-> <<>>, tags |-> <<>>, ft |-> FALSE]
TBool == [k |-> "bool", n |-> "bool", e |-> <<>>, tags |-> <<>>, ft |-> FALSE]
TString == [k |-> "string", n |-> "string", e |-> <<>>, tags |-> <<>>, ft |-> FALSE]
TPtr(t) == [k |-> "ptr", n |-> "ptr", e |-> <<t>>, tags |-> <<>>, ft |-> FALSE]
TStruct(name, fields, tags) ==
    [k |-> "struct", n |-> name, e |-> fields, tags |-> tags, ft |-> FALSE]

\* discordField[T]: fields Value and Focused; a member of fieldTypes
discordField(t) ==
    [k |-> "struct", n |-> "discordField", e |-> <<t, TBool>>, tags |-> <<"", "">>, ft |-> TRUE]

\* Page: fields Limit and Offset
Page == TStruct("Page", <<TInt, TInt>>, <<"", "">>)
\* paginator[T]: fields Options and Page; followUp[T]: field Options
paginator(t) == TStruct("paginator", <<t, Page>>, <<"", "">>)
followUp(t) == TStruct("followUp", <<t>>, <<"">>)

learnsetOptions ==
    TStruct("learnsetOptions", <<discordField(TString), TPtr(TInt), TPtr(TBool)>>,
            <<"pokemon", "max_level", "egg_moves">>)

movesOptions ==
    TStruct("movesOptions", <<discordField(TString), TInt>>, <<"pokemon", "level">>)

setOptions ==
    TStruct("options",
            <<TPtr(TStruct("Language", <<TString>>, <<"language">>)),
              TPtr(TStruct("Generation", <<TInt>>, <<"generation_number">>))>>,
            <<"language", "generation">>)

\* the subcommand pokemon of the dex and weak commands
PokemonBranch == TStruct("Pokemon", <<discordField(TString)>>, <<"pokemon">>)

weakOptions ==
    TStruct("weakOptions",
            <<TPtr(PokemonBranch),
              TPtr(TStruct("Type", <<discordField(TString), TPtr(discordField(TString))>>,
                           <<"type_1", "type_2">>))>>,
            <<"pokemon", "type">>)

dexOptions == TStruct("dexOptions", <<TPtr(PokemonBranch)>>, <<"pokemon">>)

TypeNamed(T) ==
    CASE T = "learnsetOptions" -> learnsetOptions
      [] T = "movesOptions" -> movesOptions
      [] T = "options" -> setOptions
      [] T = "weakOptions" -> weakOptions
      [] T = "dexOptions" -> dexOptions

TypeOf(ty) ==
    CASE ty.a = "paginator" -> paginator(TypeNamed(ty.T))
      [] ty.a = "followUp" -> followUp(TypeNamed(ty.T))
      [] OTHER -> TypeNamed(ty.T)

RECURSIVE Zero(_)
Zero(t) ==
    CASE t.k = "int" -> Small(0)
      [] t.k = "bool" -> FALSE
      [] t.k = "string" -> <<>>
      [] t.k = "ptr" -> <<>>
      [] t.k = "struct" -> [i \in 1..Len(t.e) |-> Zero(t.e[i])]

(***************************************************************************)
(* encoder.encode / marshal                                                *)
(***************************************************************************)

\* binary.Write(w, binary.BigEndian, int32(x)): the 4 bytes of the low word
putInt32(r) ==
    << (r \div 16777216) % 256, (r \div 65536) % 256, (r \div 256) % 256, r % 256 >>

int32(x) == x.r
int64(v) == GoInt(0, v)
uint8(n) == n % (MaxUint8 + 1)

\* an encodeInt that refuses what does not fit in 32 bits
encodeIntChecked(x) ==
    IF x.q # 0 THEN [err |-> "ErrEncodeOptions", b |-> <<>>]
    ELSE [err |-> "nil", b |-> putInt32(int32(x))]

encodeInt(x) == [err |-> "nil", b |-> putInt32(int32(x))]
encodeBool(x) == [err |-> "nil", b |-> << IF x THEN 1 ELSE 0 >>]
\* an encodeString that writes the length as a 16-bit number
encodeStringWide(s) == [err |-> "nil", b |-> <<Len(s) \div 256, uint8(Len(s))>> \o s]

encodeString(s) == [err |-> "nil", b |-> <<uint8(Len(s))>> \o s]

RECURSIVE encode(_, _), encodeFields(_, _, _)
encode(t, v) ==
    CASE t.k = "int" -> encodeInt(v)
      [] t.k = "bool" -> encodeBool(v)
      [] t.k = "string" -> encodeString(v)
      [] t.k = "ptr" ->
            IF Len(v) = 0
            THEN [err |-> "nil", b |-> <<0>>]
            ELSE LET el == encode(t.e[1], v[1])
                 IN  [err |-> el.err, b |-> <<1>> \o el.b]
      [] t.k = "struct" -> encodeFields(t, v, 1)
      [] OTHER -> [err |-> "ErrEncodeOptions", b |-> <<>>]

encodeFields(t, v, i) ==
    IF i > Len(t.e)
    THEN [err |-> "nil", b |-> <<>>]
    ELSE LET f == encode(t.e[i], v[i])
         IN  IF f.err # "nil"
             THEN [err |-> f.err, b |-> f.b]
             ELSE LET rest == encodeFields(t, v, i + 1)
                  IN  [err |-> rest.err, b |-> f.b \o rest.b]

\* marshal returns "" together with the error
marshal(t, v) ==
    LET r == encode(t, v)
    IN  IF r.err # "nil" THEN [err |-> r.err, b |-> <<>>] ELSE r

(***************************************************************************)
(* decoder.decodeValue / unmarshal.  A decode returns the error, the value *)
(* and the bytes the reader still holds.                                   *)
(***************************************************************************)

Drop(b, n) == SubSeq(b, n + 1, Len(b))

getInt32(b) ==
    (IF b[1] >= 128 THEN b[1] - 256 ELSE b[1]) * 16777216
        + b[2] * 65536 + b[3] * 256 + b[4]

decodeInt(b) ==
    IF Len(b) < 4
    THEN [err |-> "EOF", v |-> Small(0), rest |-> <<>>]
    ELSE [err |-> "nil", v |-> int64(getInt32(b)), rest |-> Drop(b, 4)]

\* a decodeBool that drops the error of binary.Read: a missing byte reads as false
decodeBoolUnchecked(b) ==
    IF Len(b) < 1
    THEN [err |-> "nil", v |-> FALSE, rest |-> <<>>]
    ELSE [err |-> "nil", v |-> (b[1] # 0), rest |-> Drop(b, 1)]

decodeBool(b) ==
    IF Len(b) < 1
    THEN [err |-> "EOF", v |-> FALSE, rest |-> <<>>]
    ELSE [err |-> "nil", v |-> (b[1] # 0), rest |-> Drop(b, 1)]

decodeString(b) ==
    IF Len(b) < 1
    THEN [err |-> "EOF", v |-> <<>>, rest |-> <<>>]
    ELSE LET l == b[1]
         IN  IF Len(b) - 1 < l
             THEN [err |-> "EOF", v |-> <<>>, rest |-> <<>>]
             ELSE [err |-> "nil", v |-> SubSeq(b, 2, l + 1), rest |-> Drop(b, l + 1)]

RECURSIVE decodeValue(_, _), decodeFields(_, _, _, _)
decodeValue(t, b) ==
    CASE t.k = "int" -> decodeInt(b)
      [] t.k = "bool" -> decodeBool(b)
      [] t.k = "string" -> decodeString(b)
      [] t.k = "ptr" ->
            LET f == decodeBool(b)
            IN  IF f.err # "nil"
                THEN [err |-> f.err, v |-> <<>>, rest |-> <<>>]
                ELSE IF f.v
                     THEN LET el == decodeValue(t.e[1], f.rest)
                          IN  [err |-> el.err, v |-> <<el.v>>, rest |-> el.rest]
                     ELSE [err |-> "nil", v |-> <<>>, rest |-> f.rest]
      [] t.k = "struct" -> decodeFields(t, b, 1, Zero(t))
      [] OTHER -> [err |-> "ErrDecodeOption", v |-> <<>>, rest |-> b]

decodeFields(t, b, i, acc) ==
    IF i > Len(t.e)
    THEN [err |-> "nil", v |-> acc, rest |-> b]
    ELSE LET f == decodeValue(t.e[i], b)
         IN  IF f.err # "nil"
             THEN [err |-> f.err, v |-> [acc EXCEPT ![i] = f.v], rest |-> f.rest]
             ELSE decodeFields(t, f.rest, i + 1, [acc EXCEPT ![i] = f.v])

unmarshal(t, b) == decodeValue(t, b)

(***************************************************************************)
(* Button custom IDs: customID builds the token, ButtonFollowUp and        *)
(* command.Button read it back.                                            *)
(***************************************************************************)

\* paginator[T].Name() and followUp[T].Name()
Name(t) == IF t.n = "paginator" THEN ActionP ELSE ActionF

customID(t, a, name, nonce) ==
    LET cmdData == marshal(TPtr(TString), name)
        actionData == marshal(t, a)
    IN  IF cmdData.err # "nil"
        THEN [err |-> cmdData.err, id |-> <<>>]
        ELSE IF actionData.err # "nil"
             THEN [err |-> actionData.err, id |-> <<>>]
             ELSE [err |-> "nil",
                   id |-> cmdData.b \o <<Name(t)>> \o actionData.b \o nonce]

ButtonFollowUp(b) == unmarshal(TPtr(TString), b)

buttonState(t, b) == unmarshal(t, b)

\* command[T].Button up to the decoded state: the action byte, then the
\* state of the type the action names
ButtonRead(T, b) ==
    IF Len(b) < 1
    THEN [err |-> "EOF", action |-> 0, state |-> <<>>]
    ELSE LET action == b[1]
         IN  CASE action = ActionP ->
                    LET s == buttonState(paginator(T), Drop(b, 1))
                    IN  [err |-> s.err, action |-> action, state |-> s.v]
               [] action = ActionF ->
                    LET s == buttonState(followUp(T), Drop(b, 1))
                    IN  [err |-> s.err, action |-> action, state |-> s.v]
               [] OTHER ->
                    [err |-> "ErrUnrecognizedInteraction", action |-> action, state |-> <<>>]

\* the button branch of the interaction handler, for a command of option
\* type T: the routing name first, then the command's Button
ReadCustomID(T, id) ==
    LET fu == ButtonFollowUp(id)
    IN  IF fu.err # "nil"
        THEN [err |-> fu.err, name |-> <<>>, action |-> 0, state |-> <<>>]
        ELSE LET r == ButtonRead(T, fu.rest)
             IN  [err |-> r.err, name |-> fu.v, action |-> r.action, state |-> r.state]

(***************************************************************************)
(* Inputs of the codec.                                                    *)
(***************************************************************************)

\* the string of n bytes 'a'
Rep(n) == [i \in 1..n |-> 97]

ShortStrs == {Rep(n) : n \in 0..MaxShort}
LongStrs == {Rep(MaxUint8), Rep(MaxUint8 + 1)}
\* 15, -1, 2^31 and -2^31 - 1
IntSamples == {Small(15), Small(-1), GoInt(1, MinInt32), GoInt(-1, MaxInt32)}
Nonces == {<<0, 0, 0, 0>>, <<ActionP, 255, 1, ActionF>>}
Names == {<<>>, <<Rep(MaxShort)>>}

OptionTypes == {"learnsetOptions", "movesOptions", "options"}
ActionTypes == [a : {"paginator", "followUp"}, T : OptionTypes]
LongTypes == {[a |-> "followUp", T |-> "options"], [a |-> "paginator", T |-> "movesOptions"]}

RECURSIVE Values(_, _, _), FieldValues(_, _, _, _)
Values(t, S, I) ==
    CASE t.k = "int" -> I
      [] t.k = "bool" -> BOOLEAN
      [] t.k = "string" -> S
      [] t.k = "ptr" -> {<<>>} \cup {<<x>> : x \in Values(t.e[1], S, I)}
      [] t.k = "struct" -> FieldValues(t, Len(t.e), S, I)

FieldValues(t, n, S, I) ==
    IF n = 0
    THEN {<<>>}
    ELSE {Append(p, x) : p \in FieldValues(t, n - 1, S, I), x \in Values(t.e[n], S, I)}

\* every string of the value fits the one-byte length prefix
RECURSIVE Fits(_, _)
Fits(t, v) ==
    CASE t.k = "string" -> Len(v) <= MaxUint8
      [] t.k = "ptr" -> Len(v) = 0 \/ Fits(t.e[1], v[1])
      [] t.k = "struct" -> \A i \in 1..Len(t.e) : Fits(t.e[i], v[i])
      [] OTHER -> TRUE

\* every int of the value is in the signed 32-bit range
RECURSIVE InRange(_, _)
InRange(t, v) ==
    CASE t.k = "int" -> v.q = 0
      [] t.k = "ptr" -> Len(v) = 0 \/ InRange(t.e[1], v[1])
      [] t.k = "struct" -> \A i \in 1..Len(t.e) : InRange(t.e[i], v[i])
      [] OTHER -> TRUE

(***************************************************************************)
(* The codec as a state machine: a value is marshalled and read back,      *)
(* whole or cut short; a custom ID is issued and a press reads it.         *)
(***************************************************************************)

InitCodec ==
    /\ pc = "start"
    /\ Offline
    /\ \/ \E t \in ActionTypes :
            typ = t /\ structure \in Values(TypeOf(t), ShortStrs, IntSamples)
       \/ \E t \in LongTypes :
            typ = t /\ structure \in Values(TypeOf(t), LongStrs, {Small(0)})
    /\ cmdName = <<>>
    /\ uuid = <<0, 0, 0, 0>>
    /\ data = <<>>
    /\ cut = 0
    /\ result = [err |-> "nil"]
    /\ options = <<>>
    /\ hasNext = FALSE

Marshal ==
    /\ pc = "start"
    /\ LET m == marshal(TypeOf(typ), structure)
       IN  /\ data' = m.b
           /\ result' = [err |-> m.err]
           /\ cut' = Len(m.b)
    /\ pc' = "marshalled"
    /\ UNCHANGED <<typ, structure, cmdName, uuid, options, hasNext, world>>

Unmarshal ==
    /\ pc = "marshalled"
    /\ result.err = "nil"
    /\ result' = unmarshal(TypeOf(typ), data)
    /\ pc' = "unmarshalled"
    /\ UNCHANGED <<typ, structure, cmdName, uuid, data, cut, options, hasNext, world>>

UnmarshalPrefix ==
    /\ pc = "marshalled"
    /\ result.err = "nil"
    /\ \E n \in 0..(Len(data) - 1) :
         /\ cut' = n
         /\ result' = unmarshal(TypeOf(typ), SubSeq(data, 1, n))
    /\ pc' = "truncated"
    /\ UNCHANGED <<typ, structure, cmdName, uuid, data, options, hasNext, world>>

CustomID ==
    /\ pc = "start"
    /\ \E name \in Names, nonce \in Nonces :
         LET c == customID(TypeOf(typ), structure, name, nonce)
         IN  /\ cmdName' = name
             /\ uuid' = nonce
             /\ data' = c.id
             /\ result' = [err |-> c.err]
             /\ cut' = Len(c.id)
    /\ pc' = "issued"
    /\ UNCHANGED <<typ, structure, options, hasNext, world>>

Press ==
    /\ pc = "issued"
    /\ result.err = "nil"
    /\ result' = ReadCustomID(TypeNamed(typ.T), data)
    /\ pc' = "pressed"
    /\ UNCHANGED <<typ, structure, cmdName, uuid, data, cut, options, hasNext, world>>

\* a press whose custom ID lost bytes of the routing name, tag or state
PressPrefix ==
    /\ pc = "issued"
    /\ result.err = "nil"
    /\ \E n \in 0..(Len(data) - Len(uuid) - 1) :
         /\ cut' = n
         /\ result' = ReadCustomID(TypeNamed(typ.T), SubSeq(data, 1, n))
    /\ pc' = "pressedTruncated"
    /\ UNCHANGED <<typ, structure, cmdName, uuid, data, options, hasNext, world>>

NextCodec ==
    \/ Marshal
    \/ Unmarshal
    \/ UnmarshalPrefix
    \/ CustomID
    \/ Press
    \/ PressPrefix

SpecCodec == InitCodec /\ [][NextCodec]_vars

(***************************************************************************)
(* Properties of the codec and of the custom IDs                           *)
(***************************************************************************)

\* C1: round-trip law: unmarshalling marshal(v) into the type of v succeeds
\* and returns a value equal to v, for every value v of a supported type.
RoundTripLaw ==
    pc = "unmarshalled" => (result.err = "nil" /\ result.v = structure)

\* The round trip does hold for the values whose strings fit the length byte
\* and whose ints are in the signed 32-bit range.
RoundTripInRange ==
    (pc = "unmarshalled" /\ Fits(TypeOf(typ), structure) /\ InRange(TypeOf(typ), structure))
        => (result.err = "nil" /\ result.v = structure /\ result.rest = <<>>)

\* C2: stateless resumability: a press reads from the custom ID alone the
\* routing name, the action tag of the state, and a state equal to the one
\* the custom ID was built from, whatever the nonce.
TokenResumable ==
    pc = "pressed" =>
        /\ result.err = "nil"
        /\ result.name = cmdName
        /\ result.action = Name(TypeOf(typ))
        /\ result.state = structure

\* C3: length bound: a custom ID that customID returns has at most 100
\* characters; a state that needs more makes customID return an error.
TokenLengthBound ==
    pc = "issued" => (result.err # "nil" \/ Len(data) <= 100)

\* C4: marshalling a value that holds a string of more than 255 bytes
\* returns an error and no bytes.
LongStringRejected ==
    (pc = "marshalled" /\ ~Fits(TypeOf(typ), structure))
        => (result.err # "nil" /\ data = <<>>)

\* C5: truncated token rejection: decoding a strict prefix of a valid
\* encoding (every string within its length byte) returns a read error, be it
\* cut in a flag, an int, a length byte or inside the bytes of a string; so
\* does a press whose custom ID is cut before the nonce.
TruncatedRejected ==
    /\ (pc = "truncated" /\ Fits(TypeOf(typ), structure)) => result.err = "EOF"
    /\ (pc = "pressedTruncated" /\ Fits(TypeOf(typ), structure)) => result.err = "EOF"

\* a cut inside the bytes of a 255-byte string, whose length byte announces
\* more than remains, and a press cut right after the action tag
TruncatedWitness ==
    \/ /\ pc = "truncated"
       /\ typ = [a |-> "followUp", T |-> "options"]
       /\ structure = << << << <<Rep(MaxUint8)>> >>, <<>> >> >>
       /\ cut = 10
       /\ result.err = "EOF"
    \/ /\ pc = "pressedTruncated"
       /\ cmdName = <<>>
       /\ cut = 2
       /\ result.err = "EOF"

(***************************************************************************)
(* decodeOptions: the platform's option tree into an option structure.     *)
(* A node of the tree is a record: name, type (the platform's option       *)
(* kind), the value under each accessor (s StringValue, i IntValue,        *)
(* b BoolValue), focused, and opts, the nodes of a subcommand.             *)
(***************************************************************************)

\* the map m of decodeOptions: fields with an empty option tag are left out,
\* a later field replaces an earlier one of the same tag
hasField(t, name) ==
    \E i \in 1..Len(t.tags) : t.tags[i] # "" /\ t.tags[i] = name

fieldOf(t, name) ==
    CHOOSE i \in 1..Len(t.tags) :
        /\ t.tags[i] = name
        /\ \A j \in (i + 1)..Len(t.tags) : t.tags[j] # name

RECURSIVE decodeOptions(_, _, _), decodeFrom(_, _, _, _), decodeOption(_, _, _),
          storeOption(_, _, _), storeField(_, _, _), setValue(_, _, _)

\* a switch that converts a node of another scalar kind instead of failing
setValueCoerce(opt, t, cur) ==
    CASE opt.type = "String" /\ t.k = "string" -> [err |-> "nil", v |-> opt.s]
      [] opt.type = "Integer" /\ t.k = "int" -> [err |-> "nil", v |-> opt.i]
      [] opt.type = "Integer" /\ t.k = "bool" -> [err |-> "nil", v |-> (opt.i # Small(0))]
      [] opt.type = "Integer" /\ t.k = "string" -> [err |-> "nil", v |-> putInt32(int32(opt.i))]
      [] opt.type = "Boolean" /\ t.k = "bool" -> [err |-> "nil", v |-> opt.b]
      [] opt.type = "Boolean" /\ t.k = "int" ->
            [err |-> "nil", v |-> IF opt.b THEN Small(1) ELSE Small(0)]
      [] opt.type = "SubCommand" /\ t.k = "struct" -> decodeOptions(opt.opts, t, cur)
      [] OTHER -> [err |-> "ErrDecodeOption", v |-> cur]

\* the switch on option.Type
setValue(opt, t, cur) ==
    CASE opt.type = "String" ->
            IF t.k = "string"
            THEN [err |-> "nil", v |-> opt.s]
            ELSE [err |-> "ErrDecodeOption", v |-> cur]
      [] opt.type = "Integer" ->
            IF t.k = "int"
            THEN [err |-> "nil", v |-> opt.i]
            ELSE [err |-> "ErrDecodeOption", v |-> cur]
      [] opt.type = "Boolean" ->
            IF t.k = "bool"
            THEN [err |-> "nil", v |-> opt.b]
            ELSE [err |-> "ErrDecodeOption", v |-> cur]
      [] opt.type = "SubCommand" ->
            IF t.k = "struct"
            THEN decodeOptions(opt.opts, t, cur)
            ELSE [err |-> "ErrDecodeOption", v |-> cur]
      [] OTHER -> [err |-> "ErrDecodeOption", v |-> cur]

\* a discordField has its Value zeroed and its Focused set, and the node's
\* value goes to Value
storeField(opt, t, cur) ==
    IF t.k = "struct" /\ t.ft
    THEN LET r == setValue(opt, t.e[1], Zero(t.e[1]))
         IN  [err |-> r.err, v |-> <<r.v, opt.focused>>]
    ELSE setValue(opt, t, cur)

\* a storeOption that allocates the pointee but never sets the field to it
storeOptionNoSet(opt, t, cur) ==
    IF t.k = "ptr"
    THEN LET r == storeField(opt, t.e[1], Zero(t.e[1]))
         IN  [err |-> r.err, v |-> cur]
    ELSE storeField(opt, t, cur)

\* a pointer field is set to a new zero value, which is then filled
storeOption(opt, t, cur) ==
    IF t.k = "ptr"
    THEN LET r == storeField(opt, t.e[1], Zero(t.e[1]))
         IN  [err |-> r.err, v |-> <<r.v>>]
    ELSE storeField(opt, t, cur)

\* a loop body that skips a node whose name is not in the map
decodeOptionSkip(opt, t, v) ==
    IF ~hasField(t, opt.name)
    THEN [err |-> "nil", v |-> v]
    ELSE LET i == fieldOf(t, opt.name)
             r == storeOption(opt, t.e[i], v[i])
         IN  [err |-> r.err, v |-> [v EXCEPT ![i] = r.v]]

\* a loop body that also allocates every pointer field that is still nil
decodeOptionAllocAll(opt, t, v) ==
    IF ~hasField(t, opt.name)
    THEN [err |-> "ErrDecodeOption", v |-> v]
    ELSE LET i == fieldOf(t, opt.name)
             r == storeOption(opt, t.e[i], v[i])
         IN  [err |-> r.err,
              v |-> [j \in 1..Len(t.e) |->
                        IF j = i THEN r.v
                        ELSE IF t.e[j].k = "ptr" /\ Len(v[j]) = 0
                             THEN <<Zero(t.e[j].e[1])>>
                             ELSE v[j]]]

\* one pass of the loop over the options
decodeOption(opt, t, v) ==
    IF ~hasField(t, opt.name)
    THEN [err |-> "ErrDecodeOption", v |-> v]
    ELSE LET i == fieldOf(t, opt.name)
             r == storeOption(opt, t.e[i], v[i])
         IN  [err |-> r.err, v |-> [v EXCEPT ![i] = r.v]]

decodeFrom(opts, i, t, v) ==
    IF i > Len(opts)
    THEN [err |-> "nil", v |-> v]
    ELSE LET r == decodeOption(opts[i], t, v)
         IN  IF r.err # "nil" THEN r ELSE decodeFrom(opts, i + 1, t, r.v)

decodeOptions(opts, t, v) == decodeFrom(opts, 1, t, v)

\* the handler of the set command: which branch it takes
setHandle(opt) ==
    CASE Len(opt[1]) # 0 -> [err |-> "nil", branch |-> "language"]
      [] Len(opt[2]) # 0 -> [err |-> "nil", branch |-> "generation"]
      [] OTHER -> [err |-> "ErrCommandFormat", branch |-> "missing"]

(***************************************************************************)
(* Inputs of the option decoder: trees of at most MaxNodes nodes, the     *)
(* nodes inside subcommands counted.                                       *)
(***************************************************************************)

Node(name, type, s, i, b, focused, opts) ==
    [name |-> name, type |-> type, s |-> s, i |-> i, b |-> b,
     focused |-> focused, opts |-> opts]

\* the scalar nodes: a string, focused or not, the integers 0 and 7, a
\* boolean, and a node of a kind the decoder does not support (a user)
Leaves(names, foci) ==
    UNION {
        { Node(n, "String", <<97>>, Small(0), FALSE, f, <<>>) : f \in foci }
        \cup { Node(n, "Integer", <<>>, Small(0), FALSE, FALSE, <<>>),
               Node(n, "Integer", <<>>, Small(7), FALSE, FALSE, <<>>),
               Node(n, "Boolean", <<>>, Small(0), TRUE, FALSE, <<>>),
               Node(n, "User", <<>>, Small(0), FALSE, FALSE, <<>>) }
        : n \in names }

\* the sequences of exactly n elements of S
RECURSIVE SeqsOf(_, _)
SeqsOf(S, n) ==
    IF n = 0 THEN {<<>>} ELSE {Append(q, x) : q \in SeqsOf(S, n - 1), x \in S}

SubCommands(names, children) ==
    { Node(n, "SubCommand", <<>>, Small(0), FALSE, FALSE, c) : n \in names, c \in children }

TopNames(t) == {t.tags[i] : i \in 1..Len(t.tags)} \cup {"bogus"}
\* the wire names inside the subcommands of t
InnerNames(t) ==
    UNION { IF t.e[i].k = "ptr" /\ t.e[i].e[1].k = "struct"
            THEN {t.e[i].e[1].tags[j] : j \in 1..Len(t.e[i].e[1].tags)}
            ELSE {}
            : i \in 1..Len(t.e) } \cup {"bogus"}

\* the nodes that count for k: a scalar node or an empty subcommand for 1, a
\* subcommand of k - 1 scalar nodes otherwise
NodesOfSize(t, k) ==
    IF k = 1
    THEN Leaves(TopNames(t), BOOLEAN) \cup SubCommands(TopNames(t), {<<>>})
    ELSE IF InnerNames(t) = {"bogus"}
         THEN {}
         ELSE SubCommands(TopNames(t), SeqsOf(Leaves(InnerNames(t), {FALSE}), k - 1))

RECURSIVE Trees(_, _)
Trees(t, n) ==
    {<<>>} \cup UNION { { <<nd>> \o rest : nd \in NodesOfSize(t, k), rest \in Trees(t, n - k) }
                        : k \in 1..n }

InitOptions ==
    /\ pc = "start"
    /\ Offline
    /\ \E T \in OptionTypes :
         /\ typ = [a |-> "", T |-> T]
         /\ structure = Zero(TypeNamed(T))
         /\ options \in Trees(TypeNamed(T), MaxNodes)
    /\ result = [err |-> "nil"]
    /\ cmdName = <<>>
    /\ uuid = <<0, 0, 0, 0>>
    /\ data = <<>>
    /\ cut = 0
    /\ hasNext = FALSE

\* command.Handle and command.Autocomplete: decodeOptions(data.Options, &structure)
DecodeOptions ==
    /\ pc = "start"
    /\ result' = decodeOptions(options, TypeOf(typ), structure)
    /\ pc' = "decoded"
    /\ UNCHANGED <<typ, structure, cmdName, uuid, data, cut, options, hasNext, world>>

\* the set command handles the decoded options
SetHandle ==
    /\ pc = "decoded"
    /\ typ.T = "options"
    /\ result.err = "nil"
    /\ LET h == setHandle(result.v)
       IN  result' = [err |-> h.err, v |-> result.v, branch |-> h.branch]
    /\ pc' = "handled"
    /\ UNCHANGED <<typ, structure, cmdName, uuid, data, cut, options, hasNext, world>>

NextOptions ==
    \/ DecodeOptions
    \/ SetHandle

SpecOptions == InitOptions /\ [][NextOptions]_vars

(***************************************************************************)
(* Properties of the option decoder                                        *)
(***************************************************************************)

\* the type a node's value is checked against: the field's type behind an
\* optional pointer and behind a discordField
Effective(ft) ==
    LET a == IF ft.k = "ptr" THEN ft.e[1] ELSE ft
    IN  IF a.k = "struct" /\ a.ft THEN a.e[1] ELSE a

KindOf(type) ==
    CASE type = "String" -> "string"
      [] type = "Integer" -> "int"
      [] type = "Boolean" -> "bool"
      [] type = "SubCommand" -> "struct"
      [] OTHER -> "unsupported"

Matches(opt, ft) == Effective(ft).k = KindOf(opt.type)

\* some node, at the top level or inside a subcommand, has a name that is
\* not a declared wire name
RECURSIVE HasUnknown(_, _)
HasUnknown(t, opts) ==
    \E j \in 1..Len(opts) :
        \/ ~hasField(t, opts[j].name)
        \/ /\ hasField(t, opts[j].name)
           /\ opts[j].type = "SubCommand"
           /\ Matches(opts[j], t.e[fieldOf(t, opts[j].name)])
           /\ HasUnknown(Effective(t.e[fieldOf(t, opts[j].name)]), opts[j].opts)

\* some node names a field of another kind than its own
RECURSIVE Mismatched(_, _)
Mismatched(t, opts) ==
    \E j \in 1..Len(opts) :
        /\ hasField(t, opts[j].name)
        /\ \/ ~Matches(opts[j], t.e[fieldOf(t, opts[j].name)])
           \/ /\ opts[j].type = "SubCommand"
              /\ Mismatched(Effective(t.e[fieldOf(t, opts[j].name)]), opts[j].opts)

\* the field as the decoder leaves it before the switch: the pointer
\* allocated, the focused flag recorded, every value still zero
Allocated(ft, focused) ==
    LET inner(t) == IF t.k = "struct" /\ t.ft THEN <<Zero(t.e[1]), focused>> ELSE Zero(t)
    IN  IF ft.k = "ptr" THEN <<inner(ft.e[1])>> ELSE inner(ft)

\* C6: unknown option rejection: a tree that holds, at the top level or in a
\* subcommand, a node whose name is not a declared wire name makes
\* decodeOptions return an error wrapping ErrDecodeOption.
UnknownOptionRejected ==
    (pc = "decoded" /\ HasUnknown(TypeOf(typ), options)) => result.err = "ErrDecodeOption"

\* an unknown name inside the language subcommand of the set command
UnknownOptionWitness ==
    /\ pc = "decoded"
    /\ typ.T = "options"
    /\ Len(options) = 1
    /\ options[1].name = "language"
    /\ options[1].type = "SubCommand"
    /\ Len(options[1].opts) = 1
    /\ options[1].opts[1].name = "bogus"
    /\ result.err = "ErrDecodeOption"

\* C7: a node whose kind differs from the kind of the field it names, or
\* whose kind is not supported, makes decodeOptions return an error wrapping
\* ErrDecodeOption, and the field it names first holds no converted value:
\* it is untouched or allocated with its zero value.
TypeMismatchRejected ==
    pc = "decoded" =>
        /\ Mismatched(TypeOf(typ), options) => result.err = "ErrDecodeOption"
        /\ \A j \in 1..Len(options) :
              ( /\ hasField(TypeOf(typ), options[j].name)
                /\ ~Matches(options[j], TypeOf(typ).e[fieldOf(TypeOf(typ), options[j].name)])
                /\ \A h \in 1..(j - 1) : options[h].name # options[j].name )
              => LET i == fieldOf(TypeOf(typ), options[j].name)
                 IN  \/ result.v[i] = Zero(TypeOf(typ).e[i])
                     \/ result.v[i] = Allocated(TypeOf(typ).e[i], options[j].focused)

\* a string node for the optional integer max_level of the learnset command
TypeMismatchWitness ==
    /\ pc = "decoded"
    /\ typ.T = "learnsetOptions"
    /\ Len(options) = 1
    /\ options[1].name = "max_level"
    /\ options[1].type = "String"
    /\ result.err = "ErrDecodeOption"
    /\ result.v[2] = <<Small(0)>>

\* the fields of v that no node of opts names hold their zero value, and so
\* do the fields of a subcommand that its last node does not name
RECURSIVE FrameHolds(_, _, _)
FrameHolds(t, opts, v) ==
    \A i \in 1..Len(t.e) :
        LET naming == {j \in 1..Len(opts) : t.tags[i] # "" /\ opts[j].name = t.tags[i]}
        IN  IF naming = {}
            THEN v[i] = Zero(t.e[i])
            ELSE LET last == CHOOSE j \in naming : \A h \in naming : h <= j
                 IN  (t.e[i].k = "ptr" /\ opts[last].type = "SubCommand")
                        => FrameHolds(t.e[i].e[1], opts[last].opts, v[i][1])

\* C8: after a successful decodeOptions into a fresh structure every field
\* that has no node in the tree keeps its zero value (nil for an optional).
AbsentFieldsUnchanged ==
    (pc = "decoded" /\ result.err = "nil") => FrameHolds(TypeOf(typ), options, result.v)

\* learnset with only the pokemon given: name written, both optionals nil
AbsentFieldsWitness ==
    /\ pc = "decoded"
    /\ typ.T = "learnsetOptions"
    /\ result.err = "nil"
    /\ Len(options) = 1
    /\ options[1].name = "pokemon"
    /\ result.v[1] = << <<97>>, TRUE >>
    /\ result.v[2] = <<>>
    /\ result.v[3] = <<>>

Populated(v) == {i \in 1..Len(v) : Len(v[i]) # 0}

\* C9: every value that decodeOptions returns successfully for the set
\* command has exactly one of its language and generation branches non-nil.
ExactlyOneBranch ==
    (pc = "decoded" /\ typ.T = "options" /\ result.err = "nil")
        => Cardinality(Populated(result.v)) = 1

\* C9 as amended: the branches populated are exactly those the nodes of the
\* tree name, so exactly one is populated iff the tree names exactly one.
BranchesAsNamed ==
    (pc = "decoded" /\ typ.T = "options" /\ result.err = "nil")
        => /\ Populated(result.v) =
                {i \in 1..Len(TypeOf(typ).e) : \E j \in 1..Len(options) : options[j].name = TypeOf(typ).tags[i]}
           /\ Cardinality(Populated(result.v)) = 1
                <=> Cardinality({options[j].name : j \in 1..Len(options)}) = 1

\* the generation subcommand alone: only the generation branch is populated
BranchesWitness ==
    /\ pc = "decoded"
    /\ typ.T = "options"
    /\ result.err = "nil"
    /\ Len(options) = 1
    /\ options[1].name = "generation"
    /\ result.v = << <<>>, << <<Small(7)>> >> >>

(***************************************************************************)
(* Pagination buttons.  A cursor is a paginator[T] value                   *)
(* <<options, <<limit, offset>>>>.                                         *)
(***************************************************************************)

\* Go's int arithmetic on the pairs (q, r)
IsZero(x) == x.q = 0 /\ x.r = 0
IsNegative(x) == x.q < 0 \/ (x.q = 0 /\ x.r < 0)

\* an addition that returns its first operand
IntAddNone(a, b) == a

IntAdd(a, b) ==
    IF a.r > 0 /\ b.r > 0 /\ a.r > MaxInt32 - b.r
    THEN GoInt(a.q + b.q + 1, (a.r + MinInt32) + (b.r + MinInt32))
    ELSE IF a.r < 0 /\ b.r < 0 /\ a.r < MinInt32 - b.r
         THEN GoInt(a.q + b.q - 1, (a.r - MinInt32) + (b.r - MinInt32))
         ELSE GoInt(a.q + b.q, a.r + b.r)

IntSub(a, b) ==
    IF a.r >= 0 /\ b.r < 0 /\ a.r > MaxInt32 + b.r
    THEN GoInt(a.q - b.q + 1, (a.r + MinInt32) - (b.r - MinInt32))
    ELSE IF a.r < 0 /\ b.r > 0 /\ a.r < MinInt32 + b.r
         THEN GoInt(a.q - b.q - 1, (a.r - MinInt32) - (b.r + MinInt32))
         ELSE GoInt(a.q - b.q, a.r - b.r)

Options(p) == p[1]
Limit(p) == p[2][1]
Offset(p) == p[2][2]
Cursor(opt, limit, offset) == <<opt, <<limit, offset>>>>

Button(label, id, disabled) == [label |-> label, id |-> id, disabled |-> disabled]

\* a moveButtons that also hides the controls on the last page
moveButtonsEither(T, p, more, nonces) ==
    IF IsZero(Offset(p)) \/ ~more
    THEN [err |-> "nil", row |-> <<>>]
    ELSE LET homeID == customID(paginator(T), Cursor(Options(p), Limit(p), Small(0)), <<>>, nonces[1])
             prevOffset == IntSub(Offset(p), Limit(p))
             prevID == customID(paginator(T), Cursor(Options(p), Limit(p), prevOffset), <<>>, nonces[2])
             nextID == customID(paginator(T), Cursor(Options(p), Limit(p), IntAdd(Offset(p), Limit(p))),
                                <<>>, nonces[3])
         IN  [err |-> "nil",
              row |-> << Button("home", homeID.id, IsZero(Offset(p))),
                         Button("prev", prevID.id, IsNegative(prevOffset)),
                         Button("next", nextID.id, ~more) >>]

\* paginator[T].moveButtons: no row, or the buttons home, prev and next
moveButtons(T, p, more, nonces) ==
    IF IsZero(Offset(p)) /\ ~more
    THEN [err |-> "nil", row |-> <<>>]
    ELSE LET phome == Cursor(Options(p), Limit(p), Small(0))
             homeID == customID(paginator(T), phome, <<>>, nonces[1])
             prevOffset == IntSub(Offset(p), Limit(p))
             pprev == Cursor(Options(p), Limit(p), prevOffset)
             prevID == customID(paginator(T), pprev, <<>>, nonces[2])
             pnext == Cursor(Options(p), Limit(p), IntAdd(Offset(p), Limit(p)))
             nextID == customID(paginator(T), pnext, <<>>, nonces[3])
         IN  IF homeID.err # "nil"
             THEN [err |-> homeID.err, row |-> <<>>]
             ELSE IF prevID.err # "nil"
                  THEN [err |-> prevID.err, row |-> <<>>]
                  ELSE IF nextID.err # "nil"
                       THEN [err |-> nextID.err, row |-> <<>>]
                       ELSE [err |-> "nil",
                             row |-> << Button("home", homeID.id, IsZero(Offset(p))),
                                        Button("prev", prevID.id, IsNegative(prevOffset)),
                                        Button("next", nextID.id, ~more) >>]

(***************************************************************************)
(* Inputs of the pagination buttons: cursors of the paging commands on     *)
(* one of the first pages, with or without a next page.                    *)
(***************************************************************************)

MaxPage == 2

PagingTypes == {"learnsetOptions", "movesOptions"}
\* the page limit is the configured move_limit (0 when the key is absent)
PageLimits == {Small(0), Small(1), Small(15)}

RECURSIVE Times(_, _)
Times(n, x) == IF n = 0 THEN Small(0) ELSE IntAdd(Times(n - 1, x), x)

InitPaging ==
    /\ pc = "start"
    /\ Offline
    /\ \E T \in PagingTypes :
         /\ typ = [a |-> "paginator", T |-> T]
         /\ \E opt \in Values(TypeNamed(T), {Rep(1)}, {Small(15)}), limit \in PageLimits, page \in 0..MaxPage :
              structure = Cursor(opt, limit, Times(page, limit))
    /\ hasNext \in BOOLEAN
    /\ result = [err |-> "nil"]
    /\ cmdName = <<>>
    /\ uuid = <<0, 0, 0, 0>>
    /\ data = <<>>
    /\ cut = 0
    /\ options = <<>>

\* the end of a paging handler: p.moveButtons(hasNext)
MoveButtons ==
    /\ pc = "start"
    /\ \E nonces \in [1..3 -> Nonces] :
         /\ uuid' = nonces
         /\ result' = moveButtons(TypeNamed(typ.T), structure, hasNext, nonces)
    /\ pc' = "buttons"
    /\ UNCHANGED <<typ, structure, cmdName, data, cut, options, hasNext, world>>

NextPaging == MoveButtons

SpecPaging == InitPaging /\ [][NextPaging]_vars

\* C10: moveButtons returns a nil row and no error exactly when the offset
\* is 0 and hasNext is false; otherwise it returns the three buttons home,
\* prev and next, in that order.
ControlsUnlessSinglePage ==
    pc = "buttons" =>
        /\ result.err = "nil"
        /\ (result.row = <<>>) <=> (IsZero(Offset(structure)) /\ ~hasNext)
        /\ result.row # <<>> =>
              /\ Len(result.row) = 3
              /\ result.row[1].label = "home"
              /\ result.row[2].label = "prev"
              /\ result.row[3].label = "next"

\* the last page of several: offset past 0, no next page, and the three
\* buttons are there
ControlsWitness ==
    /\ pc = "buttons"
    /\ ~IsZero(Offset(structure))
    /\ ~hasNext
    /\ Len(result.row) = 3

\* the three flags of a row: whether home, prev and next are disabled
Disabled(row) == <<row[1].disabled, row[2].disabled, row[3].disabled>>

\* C11: whenever controls are produced, home is disabled iff the offset is
\* 0, prev iff offset - limit is negative and next iff hasNext is false; at
\* offset 0 with a next page the row is (disabled, disabled, enabled), and at
\* offset = limit without a next page it is (enabled, enabled, disabled).
ControlsAvailability ==
    pc = "buttons" =>
        /\ result.row # <<>> =>
              /\ result.row[1].disabled <=> IsZero(Offset(structure))
              /\ result.row[2].disabled
                    <=> IsNegative(IntSub(Offset(structure), Limit(structure)))
              /\ result.row[3].disabled <=> ~hasNext
        /\ (IsZero(Offset(structure)) /\ hasNext)
              => (result.row # <<>> /\ Disabled(result.row) = <<TRUE, TRUE, FALSE>>)
        /\ (Offset(structure) = Limit(structure) /\ ~hasNext)
              => (result.row # <<>> /\ Disabled(result.row) = <<FALSE, FALSE, TRUE>>)

\* the three equivalences of C11 alone, which hold for every page limit
ControlsFlags ==
    (pc = "buttons" /\ result.row # <<>>) =>
        /\ result.row[1].disabled <=> IsZero(Offset(structure))
        /\ result.row[2].disabled
              <=> IsNegative(IntSub(Offset(structure), Limit(structure)))
        /\ result.row[3].disabled <=> ~hasNext

\* the cursor a button's token decodes to, read as the dispatcher reads it
ButtonCursor(T, button) == ReadCustomID(T, button.id)

\* C13: no token issued by moveButtons, for an enabled or a disabled button,
\* carries a negative offset: each carries 0 or the offset plus or minus the
\* limit, and that value is not negative.
IssuedOffsetsNotNegative ==
    (pc = "buttons" /\ result.row # <<>>) =>
        \A i \in 1..Len(result.row) :
            LET c == ButtonCursor(TypeNamed(typ.T), result.row[i])
            IN  /\ c.err = "nil"
                /\ Offset(c.state) \in
                      { Small(0), IntSub(Offset(structure), Limit(structure)),
                        IntAdd(Offset(structure), Limit(structure)) }
                /\ ~IsNegative(Offset(c.state))

(***************************************************************************)
(* The bot.  bot.commands is the registry, bot.models the model of each    *)
(* guild and direct-message user, bot.emojis the emoji cache.  A model is  *)
(* its language and its version ("" when unset).  message is the message   *)
(* on display, effects the handler calls and the calls to the session made *)
(* for the request at hand.                                                *)
(***************************************************************************)

IDs == {"guild", "user"}
NoModel == [present |-> FALSE, language |-> "", version |-> ""]
Model(language, version) == [present |-> TRUE, language |-> language, version |-> version]

\* the call of addModel that fails, or "nil"
Outcomes == {"nil", "New", "SetLanguageByLocale", "SetVersionByName"}

\* the name of an emoji of the resource guild: the name of a resource
\* followed by "1" or "2"
EmojiName(name, half) == <<name, half>>

\* create.Guild.Emojis of the resource guild, in the order of the event
GuildEmojis == <<EmojiName("fire", "1"), EmojiName("fire", "2")>>

\* Bot.addModel: the model enters the map before its language and version
\* are set
addModel(b, ID, outcome) ==
    CASE outcome = "New" -> [err |-> "error", bot |-> b]
      [] outcome = "SetLanguageByLocale" ->
            [err |-> "error", bot |-> [b EXCEPT !.models[ID] = Model("", "")]]
      [] outcome = "SetVersionByName" ->
            [err |-> "error", bot |-> [b EXCEPT !.models[ID] = Model("locale", "")]]
      [] OTHER ->
            [err |-> "nil", bot |-> [b EXCEPT !.models[ID] = Model("locale", "sword")]]

\* command[T]: the name, the option type, whether handle, paginate and
\* autocomplete are set, and limit (nil or a pointer to the page limit)
command(name, T, handle, paginate, autocomplete, limit) ==
    [name |-> name, T |-> T, handle |-> handle, paginate |-> paginate,
     autocomplete |-> autocomplete, limit |-> limit]

CommandNames == {"learnset", "weak", "dex"}

\* []byte(name)
NameBytes(name) ==
    CASE name = "learnset" -> <<108, 101, 97, 114, 110, 115, 101, 116>>
      [] name = "weak" -> <<119, 101, 97, 107>>
      [] name = "dex" -> <<100, 101, 120>>
      [] OTHER -> <<63>>

\* string(bytes), "" standing for every name that is not in the registry
NameOf(bytes) ==
    IF \E n \in CommandNames : NameBytes(n) = bytes
    THEN CHOOSE n \in CommandNames : NameBytes(n) = bytes
    ELSE ""

\* the configured page limit: move_limit of config.toml, 0 when absent
ConfigLimits == {Small(0), Small(15)}

\* the learnset command as the builder makes it, and the other combinations
\* of handlers that command[T] admits: both handlers, and none
LearnsetShapes ==
    { command("learnset", "learnsetOptions", FALSE, TRUE, TRUE, <<l>>) : l \in ConfigLimits }
    \cup { command("learnset", "learnsetOptions", TRUE, TRUE, TRUE, <<Small(15)>>),
           command("learnset", "learnsetOptions", FALSE, FALSE, TRUE, <<>>) }

\* Builder.all: the registry by name
Registry(learnset) ==
    [n \in CommandNames |->
        CASE n = "learnset" -> learnset
          [] n = "weak" -> command("weak", "weakOptions", TRUE, FALSE, TRUE, <<>>)
          [] n = "dex" -> command("dex", "dexOptions", TRUE, FALSE, TRUE, <<>>)]

(***************************************************************************)
(* The handlers of the commands.  A body is the content, the number of     *)
(* rows shown, the buttons, and the cursor it was made from (<<>> if none).*)
(***************************************************************************)

Body(content, shown, buttons, page) ==
    [content |-> content, shown |-> shown, buttons |-> buttons, page |-> page]
NoBody == Body("", 0, <<>>, <<>>)

Effect(op, arg) == [op |-> op, arg |-> arg]

Min(a, b) == IF a < b THEN a ELSE b
Max(a, b) == IF a > b THEN a ELSE b

\* Model.PokemonByName: the dataset knows the pokemon "a"
found(name) == name = <<97>>

\* a searchPokemonMoves that reports hasNext and leaves the extra row in
searchPokemonMovesUncut(n, limit, offset) ==
    LET avail == Max(n - Max(offset.r, 0), 0)
        fetched == IF limit.r + 1 < 0 THEN avail ELSE Min(limit.r + 1, avail)
    IN  [shown |-> fetched, hasNext |-> fetched = limit.r + 1]

\* a searchPokemonMoves that asks for limit rows and takes a full page for
\* the sign of a next one
searchPokemonMovesFull(n, limit, offset) ==
    LET avail == Max(n - Max(offset.r, 0), 0)
        fetched == IF limit.r < 0 THEN avail ELSE Min(limit.r, avail)
    IN  [shown |-> fetched, hasNext |-> fetched = limit.r]

\* Model.searchPokemonMoves over n matching rows: LIMIT limit+1 OFFSET
\* offset, then the extra row is cut and reported as hasNext
searchPokemonMoves(n, limit, offset) ==
    LET avail == Max(n - Max(offset.r, 0), 0)
        fetched == IF limit.r + 1 < 0 THEN avail ELSE Min(limit.r + 1, avail)
    IN  IF fetched = limit.r + 1
        THEN [shown |-> limit.r, hasNext |-> TRUE]
        ELSE [shown |-> fetched, hasNext |-> FALSE]

\* Model.PokemonByName: the row of the name, checked against the version
PokemonByName(mdl, name) ==
    IF ~found(name)
    THEN "no matching pokemon found"
    ELSE IF mdl.version = "" THEN "ErrUnsetVersion" ELSE "nil"

\* learnsetResponder.Paginate for a command of option type T, over the
\* database db: the matching rows, and whether a query after the lookup of
\* the pokemon fails
Paginate(T, mdl, p, db, nonce) ==
    IF PokemonByName(mdl, Options(p)[1][1]) # "nil"
    THEN [err |-> "nil", body |-> Body("No Pokemon found with that name.", 0, <<>>, p)]
    ELSE IF mdl.version = ""
         THEN [err |-> "ErrUnsetVersion", body |-> NoBody]
         ELSE IF db.fails
              THEN [err |-> "error", body |-> NoBody]
              ELSE LET page(s) ==
                           LET embed(b) ==
                                   IF b.err # "nil"
                                   THEN [err |-> b.err, body |-> NoBody]
                                   ELSE [err |-> "nil", body |-> Body("moves", s.shown, b.row, p)]
                           IN  embed(moveButtons(TypeNamed(T), p, s.hasNext, [i \in 1..3 |-> nonce]))
                   IN  page(searchPokemonMoves(db.rows, Limit(p), Offset(p)))

\* followUpButton: a button whose custom ID routes a follow-up to the named
\* command with the given options
followUpButton(name, T, opt, label, nonce) ==
    LET button(c) == [err |-> c.err, button |-> Button(label, c.id, FALSE)]
    IN  button(customID(followUp(TypeNamed(T)), <<opt>>, <<NameBytes(name)>>, nonce))

\* dexResponder.Handle
dexHandle(mdl, opt, nonce) ==
    IF opt[1] = <<>>
    THEN [err |-> "panic", body |-> NoBody]
    ELSE LET name == opt[1][1][1][1]
         IN  IF PokemonByName(mdl, name) # "nil"
             THEN [err |-> "nil", body |-> Body("No Pokemon found with that name.", 0, <<>>, <<>>)]
             ELSE LET embed(learnsetButton, weakButton) ==
                          IF learnsetButton.err # "nil"
                          THEN [err |-> learnsetButton.err, body |-> NoBody]
                          ELSE IF weakButton.err # "nil"
                               THEN [err |-> weakButton.err, body |-> NoBody]
                               ELSE [err |-> "nil",
                                     body |-> Body("dex", 0,
                                                   <<learnsetButton.button, weakButton.button>>, <<>>)]
                  IN  embed(followUpButton("learnset", "learnsetOptions",
                                           << <<name, FALSE>>, <<>>, <<>> >>, "Learnset", nonce),
                            followUpButton("weak", "weakOptions",
                                           << << << <<name, FALSE>> >> >>, <<>> >>, "Type Chart", nonce))

\* weakResponder.Handle
weakHandle(mdl, opt) ==
    CASE opt[1] # <<>> ->
            IF PokemonByName(mdl, opt[1][1][1][1]) = "nil"
            THEN [err |-> "nil", body |-> Body("Defensive type chart", 0, <<>>, <<>>)]
            ELSE [err |-> "nil", body |-> Body("No Pokemon found with that name.", 0, <<>>, <<>>)]
      [] opt[2] # <<>> -> [err |-> "nil", body |-> Body("Defensive type chart", 0, <<>>, <<>>)]
      [] OTHER -> [err |-> "ErrCommandFormat", body |-> NoBody]

\* a handle that replaces the entry of its command in the registry by one
\* without autocompletion
handleReplacing(cmd, b, ID, opt, nonce) ==
    LET on(h) == [err |-> h.err, body |-> h.body,
                  bot |-> [b EXCEPT !.commands[cmd.name].autocomplete = FALSE]]
    IN  CASE cmd.name = "dex" -> on(dexHandle(b.models[ID], opt, nonce))
          [] cmd.name = "weak" -> on(weakHandle(b.models[ID], opt))
          [] OTHER -> on([err |-> "nil", body |-> Body("direct", 0, <<>>, <<>>)])

\* cmd.handle: the direct handler of the command, on the model of ID
handle(cmd, b, ID, opt, nonce) ==
    LET on(h) == [err |-> h.err, body |-> h.body, bot |-> b]
    IN  CASE cmd.name = "dex" -> on(dexHandle(b.models[ID], opt, nonce))
          [] cmd.name = "weak" -> on(weakHandle(b.models[ID], opt))
          [] OTHER -> [err |-> "nil", body |-> Body("direct", 0, <<>>, <<>>), bot |-> b]

\* cmd.autocomplete: the prefix the suggestions are searched for
autocomplete(cmd, opt) ==
    CASE cmd.name = "learnset" ->
            IF opt[1][2]
            THEN [err |-> "nil", prefix |-> opt[1][1]]
            ELSE [err |-> "ErrCommandFormat", prefix |-> <<>>]
      [] cmd.name = "dex" ->
            IF opt[1] # <<>> /\ opt[1][1][1][2]
            THEN [err |-> "nil", prefix |-> opt[1][1][1][1]]
            ELSE [err |-> "ErrCommandFormat", prefix |-> <<>>]
      [] cmd.name = "weak" ->
            CASE opt[1] # <<>> ->
                    IF opt[1][1][1][2]
                    THEN [err |-> "nil", prefix |-> opt[1][1][1][1]]
                    ELSE [err |-> "ErrCommandFormat", prefix |-> <<>>]
              [] opt[2] # <<>> ->
                    CASE opt[2][1][1][2] -> [err |-> "nil", prefix |-> opt[2][1][1][1]]
                      [] opt[2][1][2] # <<>> /\ opt[2][1][2][1][2] ->
                            [err |-> "nil", prefix |-> opt[2][1][2][1][1]]
                      [] OTHER -> [err |-> "ErrCommandFormat", prefix |-> <<>>]
              [] OTHER -> [err |-> "ErrCommandFormat", prefix |-> <<>>]
      [] OTHER -> [err |-> "ErrCommandFormat", prefix |-> <<>>]

(***************************************************************************)
(* The methods of command[T].  Each returns the error, the effects (the    *)
(* handler calls and the calls to the session, in order), the message on   *)
(* display afterwards and the bot afterwards.                              *)
(***************************************************************************)

NoMessage == [name |-> ""]

\* a message sent for the command name in the guild or the direct-message
\* channel ID: origin is the cursor of the fresh invocation (<<>> for a
\* command without pages)
Message(name, ID, body, origin) ==
    [name |-> name, channel |-> ID, content |-> body.content, shown |-> body.shown,
     buttons |-> body.buttons, page |-> body.page, origin |-> origin]

Done(err, eff, msg, b) == [err |-> err, effects |-> eff, message |-> msg, bot |-> b]

\* command[T].responseBody
responseBody(cmd, b, ID, opt, db, nonce) ==
    IF cmd.handle
    THEN LET handled(h) ==
                 [err |-> h.err, body |-> h.body, calls |-> <<Effect("handle", opt)>>, bot |-> h.bot]
         IN  handled(handle(cmd, b, ID, opt, nonce))
    ELSE IF cmd.paginate /\ cmd.limit # <<>>
         THEN LET p == Cursor(opt, cmd.limit[1], Small(0))
                  paged(g) ==
                      [err |-> g.err, body |-> g.body, calls |-> <<Effect("paginate", p)>>, bot |-> b]
              IN  paged(Paginate(cmd.T, b.models[ID], p, db, nonce))
         ELSE [err |-> "ErrUnrecognizedInteraction", body |-> NoBody, calls |-> <<>>, bot |-> b]

\* command[T].Handle
Handle(cmd, b, ID, msg, tree, db, nonce) ==
    LET respond(rb) ==
            IF rb.err # "nil"
            THEN Done(rb.err, rb.calls, msg, rb.bot)
            ELSE Done("nil",
                      rb.calls \o <<Effect("InteractionRespond", "ChannelMessageWithSource")>>,
                      Message(cmd.name, ID, rb.body, rb.body.page), rb.bot)
        decoded(d) ==
            IF d.err # "nil"
            THEN Done(d.err, <<>>, msg, b)
            ELSE respond(responseBody(cmd, b, ID, d.v, db, nonce))
    IN  decoded(decodeOptions(tree, TypeNamed(cmd.T), Zero(TypeNamed(cmd.T))))

\* a Button that answers a follow-up as it answers a page turn, by editing
\* the message in place
ButtonCmdEditsAlways(cmd, b, ID, msg, reader, db, nonce) ==
    IF Len(reader) < 1
    THEN Done("EOF", <<>>, msg, b)
    ELSE LET action == reader[1]
             edit(page, g) ==
                 IF g.err # "nil"
                 THEN Done(g.err, <<Effect("paginate", page.v)>>, msg, b)
                 ELSE Done("nil",
                           << Effect("paginate", page.v),
                              Effect("ChannelMessageEditComplex", msg.name),
                              Effect("InteractionRespond", "UpdateMessage") >>,
                           [msg EXCEPT !.content = g.body.content,
                                       !.shown = g.body.shown,
                                       !.buttons = g.body.buttons,
                                       !.page = g.body.page],
                           b)
             turn(page) ==
                 IF page.err # "nil"
                 THEN Done(page.err, <<>>, msg, b)
                 ELSE IF ~cmd.paginate
                      THEN Done("panic", <<>>, msg, b)
                      ELSE edit(page, Paginate(cmd.T, b.models[ID], page.v, db, nonce))
             reply(rb) ==
                 IF rb.err # "nil"
                 THEN Done(rb.err, rb.calls, msg, rb.bot)
                 ELSE Done("nil",
                           rb.calls \o
                             << Effect("ChannelMessageEditComplex", msg.name),
                                Effect("InteractionRespond", "UpdateMessage") >>,
                           [msg EXCEPT !.content = rb.body.content,
                                       !.shown = rb.body.shown,
                                       !.buttons = rb.body.buttons,
                                       !.page = rb.body.page],
                           rb.bot)
             follow(st) ==
                 IF st.err # "nil"
                 THEN Done(st.err, <<>>, msg, b)
                 ELSE reply(responseBody(cmd, b, ID, st.v[1], db, nonce))
         IN  CASE action = ActionP ->
                    turn(buttonState(paginator(TypeNamed(cmd.T)), Drop(reader, 1)))
               [] action = ActionF ->
                    follow(buttonState(followUp(TypeNamed(cmd.T)), Drop(reader, 1)))
               [] OTHER -> Done("ErrUnrecognizedInteraction", <<>>, msg, b)

\* command[T].Button on what the reader still holds
ButtonCmd(cmd, b, ID, msg, reader, db, nonce) ==
    IF Len(reader) < 1
    THEN Done("EOF", <<>>, msg, b)
    ELSE LET action == reader[1]
             edit(page, g) ==
                 IF g.err # "nil"
                 THEN Done(g.err, <<Effect("paginate", page.v)>>, msg, b)
                 ELSE Done("nil",
                           << Effect("paginate", page.v),
                              Effect("ChannelMessageEditComplex", msg.name),
                              Effect("InteractionRespond", "UpdateMessage") >>,
                           [msg EXCEPT !.content = g.body.content,
                                       !.shown = g.body.shown,
                                       !.buttons = g.body.buttons,
                                       !.page = g.body.page],
                           b)
             turn(page) ==
                 IF page.err # "nil"
                 THEN Done(page.err, <<>>, msg, b)
                 ELSE IF ~cmd.paginate
                      THEN Done("panic", <<>>, msg, b)
                      ELSE edit(page, Paginate(cmd.T, b.models[ID], page.v, db, nonce))
             reply(rb) ==
                 IF rb.err # "nil"
                 THEN Done(rb.err, rb.calls, msg, rb.bot)
                 ELSE Done("nil",
                           rb.calls \o
                             << Effect("ChannelMessageSendEmbedsReply", msg.name),
                                Effect("InteractionRespond", "UpdateMessage") >>,
                           msg, rb.bot)
             follow(st) ==
                 IF st.err # "nil"
                 THEN Done(st.err, <<>>, msg, b)
                 ELSE reply(responseBody(cmd, b, ID, st.v[1], db, nonce))
         IN  CASE action = ActionP ->
                    turn(buttonState(paginator(TypeNamed(cmd.T)), Drop(reader, 1)))
               [] action = ActionF ->
                    follow(buttonState(followUp(TypeNamed(cmd.T)), Drop(reader, 1)))
               [] OTHER -> Done("ErrUnrecognizedInteraction", <<>>, msg, b)

\* command[T].Autocomplete
AutocompleteCmd(cmd, b, msg, tree) ==
    LET choices(d, c) ==
            IF c.err # "nil"
            THEN Done(c.err, <<Effect("autocomplete", d.v)>>, msg, b)
            ELSE Done("nil",
                      << Effect("autocomplete", d.v),
                         Effect("InteractionRespondChoices", c.prefix) >>,
                      msg, b)
        decoded(d) ==
            IF d.err # "nil"
            THEN Done(d.err, <<>>, msg, b)
            ELSE IF ~cmd.autocomplete
                 THEN Done("panic", <<>>, msg, b)
                 ELSE choices(d, autocomplete(cmd, d.v))
    IN  decoded(decodeOptions(tree, TypeNamed(cmd.T), Zero(TypeNamed(cmd.T))))

(***************************************************************************)
(* The interaction handler of Bot.registerCommands and the guild handler   *)
(* of Bot.initialize.  A request is the interaction: its type, its sender  *)
(* (a guild member or a direct-message user), the command name and option  *)
(* tree, or the custom ID of the button pressed.                           *)
(***************************************************************************)

Request(type, sender, name, tree, id) ==
    [type |-> type, sender |-> sender, name |-> name, options |-> tree, customID |-> id]

Senders == {[kind |-> "member", id |-> "guild"], [kind |-> "user", id |-> "user"]}

\* the first switch of the handler: the model of the sender, made on the
\* spot for a user that has none
senderModel(b, sender, outcome) ==
    IF sender.kind = "member"
    THEN [ok |-> b.models[sender.id].present, bot |-> b]
    ELSE IF b.models[sender.id].present
         THEN [ok |-> TRUE, bot |-> b]
         ELSE LET a == addModel(b, sender.id, outcome)
              IN  [ok |-> a.err = "nil", bot |-> a.bot]

\* the name of the command a press goes to, taking the prefix for the
\* command of the message
buttonCommandSelf(prefix, msg) == msg.name

\* the name of the command a press goes to: the one the prefix of the
\* custom ID names, else the command of the message
buttonCommand(prefix, msg) ==
    IF prefix # <<>> THEN NameOf(prefix[1]) ELSE msg.name

\* the handler added by registerCommands
InteractionCreate(b, msg, req, db, outcome, nonce) ==
    LET press(m, fu, name) ==
            IF name \notin DOMAIN m.bot.commands
            THEN Done("dropped", <<>>, msg, m.bot)
            ELSE ButtonCmd(m.bot.commands[name], m.bot, req.sender.id, msg, fu.rest, db, nonce)
        component(m, fu) ==
            IF fu.err # "nil"
            THEN Done("dropped", <<>>, msg, m.bot)
            ELSE press(m, fu, buttonCommand(fu.v, msg))
        switch(m) ==
            IF ~m.ok
            THEN Done("dropped", <<>>, msg, m.bot)
            ELSE CASE req.type \in {"ApplicationCommand", "ApplicationCommandAutocomplete"} ->
                        IF req.name \notin DOMAIN m.bot.commands
                        THEN Done("dropped", <<>>, msg, m.bot)
                        ELSE IF req.type = "ApplicationCommand"
                             THEN Handle(m.bot.commands[req.name], m.bot, req.sender.id, msg,
                                         req.options, db, nonce)
                             ELSE AutocompleteCmd(m.bot.commands[req.name], m.bot, msg, req.options)
                   [] req.type = "MessageComponent" -> component(m, ButtonFollowUp(req.customID))
                   [] OTHER -> Done("dropped", <<>>, msg, m.bot)
    IN  switch(senderModel(b, req.sender, outcome))

(***************************************************************************)
(* Inputs of the bot: the trees the platform sends for each command, the   *)
(* identifiers of buttons of an earlier deployment, the rows of the query. *)
(***************************************************************************)

StrOpt(name, focused) == Node(name, "String", <<97>>, Small(0), FALSE, focused, <<>>)
StrVal(name, str, focused) == Node(name, "String", str, Small(0), FALSE, focused, <<>>)
IntOpt(name, i) == Node(name, "Integer", <<>>, i, FALSE, FALSE, <<>>)
SubOpt(name, opts) == Node(name, "SubCommand", <<>>, Small(0), FALSE, FALSE, opts)

\* 2^32 + 7, an integer the platform can send and int32 cannot hold
WideLevel == GoInt(1, 7)

\* the trees of a slash command
CommandTrees(name) ==
    CASE name = "learnset" ->
            { <<StrOpt("pokemon", FALSE)>>,
              <<StrOpt("pokemon", FALSE), IntOpt("max_level", WideLevel)>>,
              <<StrOpt("bogus", FALSE)>> }
      [] name = "weak" -> { <<SubOpt("type", <<StrOpt("type_1", FALSE)>>)>> }
      [] name = "dex" -> { <<SubOpt("pokemon", <<StrOpt("pokemon", FALSE)>>)>> }
      [] OTHER -> { <<>> }

\* the trees of an autocompletion: one field in focus, none, or two
AutocompleteTrees(name) ==
    CASE name = "learnset" -> { <<StrOpt("pokemon", TRUE)>>, <<StrOpt("pokemon", FALSE)>> }
      [] name = "weak" ->
            { <<SubOpt("type", <<StrOpt("type_1", TRUE), StrVal("type_2", <<98>>, TRUE)>>)>>,
              <<SubOpt("type", <<StrOpt("type_1", FALSE), StrVal("type_2", <<98>>, TRUE)>>)>>,
              <<SubOpt("type", <<StrOpt("type_1", FALSE)>>)>>,
              <<SubOpt("pokemon", <<StrOpt("pokemon", TRUE)>>)>> }
      [] name = "dex" -> { <<SubOpt("pokemon", <<StrOpt("pokemon", TRUE)>>)>> }
      [] OTHER -> { <<>> }

\* custom IDs that no button on display carries: an action tag that is
\* neither 'p' nor 'f', and a pagination cursor routed by name to the dex
\* command, which has no paging handler
StaleIDs ==
    { <<0, 120, 0, 0, 0, 0>>,
      customID(dexOptions, Zero(dexOptions), <<NameBytes("removed")>>, <<0, 0, 0, 0>>).id,
      customID(paginator(dexOptions), Cursor(Zero(dexOptions), Small(15), Small(0)),
               <<NameBytes("dex")>>, <<0, 0, 0, 0>>).id }

\* the rows that match the query of the paging command
Rows == {3, 40}

InitBot ==
    /\ pc = "ready"
    /\ \E learnset \in LearnsetShapes :
         bot = [commands |-> Registry(learnset),
                models |-> [id \in IDs |-> NoModel],
                emojis |-> {GuildEmojis[i] : i \in 1..Len(GuildEmojis)}]
    /\ message = NoMessage
    /\ effects = <<>>
    /\ request = [type |-> "none"]
    /\ rows \in Rows
    /\ startup = [init |-> "serving"]
    /\ typ = [a |-> "", T |-> "options"]
    /\ structure = <<>>
    /\ cmdName = <<>>
    /\ uuid = <<0, 0, 0, 0>>
    /\ data = <<>>
    /\ cut = 0
    /\ result = [err |-> "nil"]
    /\ options = <<>>
    /\ hasNext = FALSE

\* the nonce of the custom IDs the bot issues
BotNonce == <<0, 0, 0, 0>>

\* the guild handler once the bot serves: a guild other than the resource
\* guild becomes available and gets its model
OnGuildCreate ==
    /\ ~bot.models["guild"].present
    /\ \E outcome \in Outcomes :
         LET a == addModel(bot, "guild", outcome)
         IN  /\ bot' = a.bot
             /\ result' = [err |-> a.err]
    /\ effects' = <<>>
    /\ request' = [type |-> "GuildCreate"]
    /\ pc' = "GuildCreate"
    /\ UNCHANGED <<typ, structure, cmdName, uuid, data, cut, options, hasNext, rows, message, startup>>

\* the interactions the platform can deliver: a slash command, a keystroke
\* in an option with autocompletion, and the press of a button of the
\* message on display (one that is enabled, or one of an earlier deployment)
\* in the guild or the direct-message channel of the message
CommandRequests ==
    UNION { { Request("ApplicationCommand", sender, name, tree, <<>>) :
                sender \in Senders, tree \in CommandTrees(name) } :
            name \in CommandNames \cup {"bogus"} }

AutocompleteRequests ==
    UNION { { Request("ApplicationCommandAutocomplete", sender, name, tree, <<>>) :
                sender \in Senders, tree \in AutocompleteTrees(name) } :
            name \in CommandNames }

ButtonRequests(msg) ==
    IF msg.name = ""
    THEN {}
    ELSE { Request("MessageComponent", sender, "", <<>>, id) :
             sender \in { x \in Senders : x.id = msg.channel },
             id \in { msg.buttons[i].id :
                        i \in { j \in 1..Len(msg.buttons) : ~msg.buttons[j].disabled } }
                    \cup StaleIDs }

\* the interaction handler runs on one interaction
OnInteractionCreate ==
    \E req \in CommandRequests \cup AutocompleteRequests \cup ButtonRequests(message) :
        \E outcome \in IF req.sender.kind = "user" /\ ~bot.models[req.sender.id].present
                        THEN Outcomes ELSE {"nil"},
           fails \in IF req.type = "ApplicationCommandAutocomplete" THEN {FALSE} ELSE BOOLEAN :
            \E o \in {InteractionCreate(bot, message, req, [rows |-> rows, fails |-> fails],
                                        outcome, BotNonce)} :
                /\ result' = [err |-> o.err]
                /\ effects' = o.effects
                /\ message' = o.message
                /\ bot' = o.bot
                /\ request' = req
                /\ pc' = req.type
                /\ UNCHANGED <<typ, structure, cmdName, uuid, data, cut, options, hasNext, rows, startup>>

NextBot ==
    \/ OnGuildCreate
    \/ OnInteractionCreate

SpecBot == InitBot /\ [][NextBot]_vars

(***************************************************************************)
(* The query of the paging handler on its own: a table of rows matching    *)
(* rows is searched with the limit and the offset of a cursor.             *)
(***************************************************************************)
\* bounds: the matching rows and the page limit
MaxRows == 6
MaxLimit == 3

InitQuery ==
    /\ pc = "start"
    /\ rows \in 0..MaxRows
    /\ \E limit \in 0..MaxLimit, offset \in -1..MaxRows :
         structure = Cursor(Zero(learnsetOptions), Small(limit), Small(offset))
    /\ typ = [a |-> "paginator", T |-> "learnsetOptions"]
    /\ bot = [commands |-> <<>>, models |-> <<>>, emojis |-> {}]
    /\ message = [name |-> ""]
    /\ effects = <<>>
    /\ request = [type |-> "none"]
    /\ startup = [init |-> "off"]
    /\ hasNext = FALSE
    /\ result = [err |-> "nil"]
    /\ cmdName = <<>>
    /\ uuid = <<0, 0, 0, 0>>
    /\ data = <<>>
    /\ cut = 0
    /\ options = <<>>

\* moves, hasNext, err := mdl.searchPokemonMoves(..., p.Limit, p.Offset)
Search ==
    /\ pc = "start"
    /\ \E s \in {searchPokemonMoves(rows, Limit(structure), Offset(structure))} :
         /\ result' = [err |-> "nil", shown |-> s.shown]
         /\ hasNext' = s.hasNext
    /\ pc' = "searched"
    /\ UNCHANGED <<typ, structure, cmdName, uuid, data, cut, options,
                   bot, message, effects, request, rows, startup>>

NextQuery == Search

SpecQuery == InitQuery /\ [][NextQuery]_vars

(***************************************************************************)
(* A reader of the paging command: one invocation in a guild, then a press *)
(* of next for as long as the button is enabled.                           *)
(***************************************************************************)
InitWalk ==
    /\ pc = "invoked"
    /\ rows \in 0..MaxRows
    /\ \E limit \in 1..MaxLimit :
         bot = [commands |-> Registry(command("learnset", "learnsetOptions", FALSE, TRUE, TRUE,
                                              <<Small(limit)>>)),
                models |-> [id \in IDs |-> IF id = "guild" THEN Model("locale", "sword")
                                           ELSE NoModel],
                emojis |-> {GuildEmojis[i] : i \in 1..Len(GuildEmojis)}]
    /\ structure \in Values(learnsetOptions, {Rep(1)}, {Small(15)})
    /\ typ = [a |-> "", T |-> "learnsetOptions"]
    /\ message = NoMessage
    /\ effects = <<>>
    /\ request = [type |-> "none"]
    /\ startup = [init |-> "serving"]
    /\ hasNext = FALSE
    /\ result = [err |-> "nil"]
    /\ cmdName = <<>>
    /\ uuid = <<0, 0, 0, 0>>
    /\ data = <<>>
    /\ cut = 0
    /\ options = <<>>

\* what the reader leaves alone
Still == <<typ, structure, cmdName, uuid, data, cut, options, hasNext,
           bot, request, rows, startup>>

\* the invocation: the first page
FirstPage ==
    /\ pc = "invoked"
    /\ \E rb \in {responseBody(bot.commands["learnset"], bot, "guild", structure,
                               [rows |-> rows, fails |-> FALSE], BotNonce)} :
         /\ result' = [err |-> rb.err]
         /\ effects' = rb.calls
         /\ message' = Message("learnset", "guild", rb.body, rb.body.page)
    /\ pc' = "FirstPage"
    /\ UNCHANGED Still

\* the message on display has a next button that is enabled
CanPress ==
    /\ pc # "invoked"
    /\ message.buttons # <<>>
    /\ ~message.buttons[3].disabled

\* a press of next
PressNext ==
    /\ CanPress
    /\ \E o \in {ButtonCmd(bot.commands["learnset"], bot, "guild", message,
                           ButtonFollowUp(message.buttons[3].id).rest,
                           [rows |-> rows, fails |-> FALSE], BotNonce)} :
         /\ result' = [err |-> o.err]
         /\ effects' = o.effects
         /\ message' = o.message
    /\ pc' = "PressNext"
    /\ UNCHANGED Still

NextWalk ==
    \/ FirstPage
    \/ PressNext

SpecWalk == InitWalk /\ [][NextWalk]_vars

\* the reader goes on: the invocation is answered, and next is pressed
\* whenever it is enabled.  This is WF_vars(FirstPage) /\ WF_vars(PressNext)
\* with ENABLED written out as the guard of each action
SpecWalkFair ==
    /\ SpecWalk
    /\ ([]<>(pc # "invoked") \/ []<><<FirstPage>>_vars)
    /\ ([]<>(~CanPress) \/ []<><<PressNext>>_vars)

(***************************************************************************)
(* Startup.  Bot.initialize opens the session, adds the guild handler and  *)
(* waits on the unbuffered channel "connected" or for the timer; after the *)
(* receive it adds the interaction handler.  The platform runs every       *)
(* handler in a goroutine of its own.  startup.init is the position of     *)
(* initialize, startup.cb the goroutines of the guild handler for the      *)
(* events of the resource guild (where each is and how many emojis it has  *)
(* stored), startup.seen what the latest Emoji call of an interaction      *)
(* handler returned, startup.read whether the table has been read,         *)
(* startup.torn whether it was read while a goroutine was storing into it  *)
(* and startup.late whether it was written after its first read.           *)
(***************************************************************************)
\* bound: the GuildCreate events of the resource guild (the first one and
\* its repeats after a reconnect)
MaxEvents == 2

\* the guild that bot.config.Discord.CommandConfig.ResourceGuildID names
ResourceGuildID == "guild"

\* a goroutine of the guild handler
Callback(at, i) == [pc |-> at, i |-> i]

\* Emojis.Emoji: both halves of the emoji of a resource
Emoji(emojis, name) ==
    IF EmojiName(name, "1") \notin emojis THEN "could not find first emoji"
    ELSE IF EmojiName(name, "2") \notin emojis THEN "could not find second emoji"
    ELSE "nil"

\* some goroutine is inside the loop that stores the emojis
Storing == \E e \in 1..MaxEvents : startup.cb[e].pc = "store"

InitStartup ==
    /\ pc = "initialize"
    /\ \E learnset \in LearnsetShapes :
         bot = [commands |-> Registry(learnset),
                models |-> [id \in IDs |-> NoModel],
                emojis |-> {}]
    /\ startup = [init |-> "select",
                  cb |-> [e \in 1..MaxEvents |-> Callback("idle", 0)],
                  seen |-> "none", read |-> FALSE, torn |-> FALSE, late |-> FALSE]
    /\ message = [name |-> ""]
    /\ effects = <<>>
    /\ request = [type |-> "none"]
    /\ rows = 0
    /\ typ = [a |-> "", T |-> "options"]
    /\ structure = <<>>
    /\ cmdName = <<>>
    /\ uuid = <<0, 0, 0, 0>>
    /\ data = <<>>
    /\ cut = 0
    /\ result = [err |-> "nil"]
    /\ options = <<>>
    /\ hasNext = FALSE

\* what startup leaves alone
Idle == <<typ, structure, cmdName, uuid, data, cut, options, hasNext,
          message, effects, request, rows>>

\* the guild handler up to its send: a GuildCreate of the resource guild
\* starts a goroutine, which adds the model and returns on an error
GuildCreate ==
    /\ startup.init \in {"select", "serving", "timeout"}
    /\ \E e \in 1..MaxEvents :
         /\ startup.cb[e].pc = "idle"
         /\ \A d \in 1..(e - 1) : startup.cb[d].pc # "idle"
         /\ \E outcome \in Outcomes :
              \E a \in {addModel(bot, ResourceGuildID, outcome)} :
                  /\ bot' = a.bot
                  /\ result' = [err |-> a.err]
                  /\ startup' = [startup EXCEPT !.cb[e] =
                                    Callback(IF a.err = "nil" THEN "send" ELSE "return", 0)]
    /\ pc' = "GuildCreate"
    /\ UNCHANGED Idle

\* connected <- err meets <-connected: initialize goes on to
\* registerCommands, which adds the interaction handler, and the goroutine
\* that sent goes on to store the emojis
Connected ==
    /\ startup.init = "select"
    /\ \E e \in 1..MaxEvents :
         /\ startup.cb[e].pc = "send"
         /\ startup' = [startup EXCEPT !.init = "serving", !.cb[e] = Callback("store", 0)]
    /\ pc' = "Connected"
    /\ UNCHANGED <<bot, result>>
    /\ UNCHANGED Idle

\* the timer of the select fires: initialize returns the error, and no
\* goroutine receives from the channel any more
Timeout ==
    /\ startup.init = "select"
    /\ startup' = [startup EXCEPT !.init = "timeout"]
    /\ result' = [err |-> "timeout while connecting to resource server"]
    /\ pc' = "Timeout"
    /\ UNCHANGED bot
    /\ UNCHANGED Idle

\* one turn of the loop over create.Guild.Emojis
Store ==
    /\ startup.init = "serving"
    /\ \E e \in 1..MaxEvents :
         /\ startup.cb[e].pc = "store"
         /\ \E i \in {startup.cb[e].i + 1} :
              /\ bot' = [bot EXCEPT !.emojis = @ \cup {GuildEmojis[i]}]
              /\ startup' = [startup EXCEPT
                                !.cb[e] = Callback(IF i = Len(GuildEmojis) THEN "done" ELSE "store", i),
                                !.late = @ \/ startup.read]
    /\ pc' = "Store"
    /\ UNCHANGED result
    /\ UNCHANGED Idle

\* an interaction handler renders a type: it reads the table with no lock.
\* A read while a goroutine stores is a data race: it returns what the
\* table holds at that moment, or the runtime stops the process with
\* "concurrent map read and map write"
ReadEmoji ==
    /\ startup.init = "serving"
    /\ \E seen \in {Emoji(bot.emojis, "fire")} \cup (IF Storing THEN {"fatal"} ELSE {}) :
         startup' = [startup EXCEPT !.seen = seen,
                                    !.read = TRUE,
                                    !.torn = @ \/ Storing,
                                    !.init = IF seen = "fatal" THEN "crashed" ELSE @]
    /\ pc' = "Emoji"
    /\ UNCHANGED <<bot, result>>
    /\ UNCHANGED Idle

NextStartup ==
    \/ GuildCreate
    \/ Connected
    \/ Timeout
    \/ Store
    \/ ReadEmoji

SpecStartup == InitStartup /\ [][NextStartup]_vars

\* the scheduler runs every goroutine that can take a step, and the timer
\* fires while initialize still waits; events and interactions come when
\* the platform sends them
SpecStartupFair ==
    /\ SpecStartup
    /\ WF_vars(Connected)
    /\ WF_vars(Timeout)
    /\ WF_vars(Store)

(***************************************************************************)
(* Properties of the bot.                                                  *)
(***************************************************************************)

\* the request at hand is the press of a pagination button that reached the
\* paging handler
PagePressed ==
    /\ pc = "MessageComponent"
    /\ message.name # ""
    /\ message.origin # <<>>
    /\ Len(effects) > 0
    /\ effects[1].op = "paginate"

\* C12: over any sequence of button presses, the options and the limit of
\* the cursor decoded from the token of the button pressed are those of the
\* cursor of the fresh invocation that sent the message.
TokensKeepInvocation ==
    PagePressed =>
        /\ Options(effects[1].arg) = Options(message.origin)
        /\ Limit(effects[1].arg) = Limit(message.origin)

\* C14: every cursor the paging handler is called with, by a fresh
\* invocation or after a button press, has a limit greater than 0.
CursorLimitPositive ==
    \A i \in 1..Len(effects) :
        effects[i].op = "paginate" =>
            /\ ~IsZero(Limit(effects[i].arg))
            /\ ~IsNegative(Limit(effects[i].arg))

\* the message on display is a page of the paging command with page limit
\* 15 over 40 matching rows
PageOf40(msg) ==
    /\ rows = 40
    /\ msg.name = "learnset"
    /\ msg.content = "moves"
    /\ msg.page # <<>>
    /\ Limit(msg.page) = Small(15)

\* the flags home.disabled, prev.disabled, next.disabled of a message
Flags(msg) == [i \in 1..Len(msg.buttons) |-> msg.buttons[i].disabled]

\* the request served by the step is the press of button i of the message
Pressed(i) ==
    /\ pc' = "MessageComponent"
    /\ result'.err = "nil"
    /\ Len(message.buttons) = 3
    /\ request'.customID = message.buttons[i].id

Calls(op) == Cardinality({ i \in 1..Len(effects) : effects[i].op = op })

\* the request at hand is a fresh invocation that reached its command
Invoked ==
    /\ pc = "ApplicationCommand"
    /\ result.err # "dropped"
    /\ request.name \in DOMAIN bot.commands

\* the options of the fresh invocation at hand decode
Decodes ==
    LET T == TypeNamed(bot.commands[request.name].T)
    IN  decodeOptions(request.options, T, Zero(T)).err = "nil"

\* C16: a fresh invocation whose options decode calls the direct handler
\* exactly once and the paging handler not at all when the command has a
\* direct handler, calls the paging handler exactly once on a cursor of
\* offset 0 and the configured limit when it has only a paging handler and
\* a limit, and sends exactly one initial response in both cases; when the
\* options fail to decode no handler is called.
FreshDispatch ==
    Invoked =>
        LET cmd == bot.commands[request.name]
        IN  /\ (Decodes /\ cmd.handle) =>
                  /\ Calls("handle") = 1
                  /\ Calls("paginate") = 0
                  /\ Calls("InteractionRespond") = 1
            /\ (Decodes /\ ~cmd.handle /\ cmd.paginate /\ cmd.limit # <<>>) =>
                  /\ Calls("handle") = 0
                  /\ Calls("paginate") = 1
                  /\ effects[1].op = "paginate"
                  /\ Offset(effects[1].arg) = Small(0)
                  /\ Limit(effects[1].arg) = cmd.limit[1]
                  /\ Calls("InteractionRespond") = 1
            /\ ~Decodes =>
                  /\ Calls("handle") = 0
                  /\ Calls("paginate") = 0

\* the command a button press is routed to: the one the custom ID names,
\* or the one that sent the message
Routed(msg, id) ==
    LET fu == ButtonFollowUp(id)
    IN  IF fu.err = "nil" /\ fu.v # <<>> THEN NameOf(fu.v[1]) ELSE msg.name

\* what command.Button reads from the custom ID of a press routed to name
ReadFor(name, id) == ReadCustomID(TypeNamed(bot.commands[name].T), id)

PageTurnWitness ==
    /\ PagePressed
    /\ result.err = "nil"
    /\ ReadFor("learnset", request.customID).action = ActionP
    /\ Len(effects) = 3
    /\ effects[2] = Effect("ChannelMessageEditComplex", "learnset")
    /\ message.page = effects[1].arg

\* the request at hand is a button press that reached a command
PressDispatched ==
    /\ pc = "MessageComponent"
    /\ result.err # "dropped"
    /\ Routed(message, request.customID) \in DOMAIN bot.commands

\* C18: a press whose action tag is neither 'p' nor 'f', a pagination press
\* routed to a command without a paging handler, and a fresh invocation of
\* a command with neither a direct nor a paging handler each end with an
\* error that is ErrUnrecognizedInteraction.
UndispatchableReported ==
    /\ PressDispatched =>
          LET cmd == bot.commands[Routed(message, request.customID)]
              r == ReadFor(Routed(message, request.customID), request.customID)
          IN  /\ r.action \notin {0, ActionP, ActionF} =>
                    result.err = "ErrUnrecognizedInteraction"
              /\ (r.err = "nil" /\ r.action = ActionP /\ ~cmd.paginate) =>
                    result.err = "ErrUnrecognizedInteraction"
    /\ (Invoked /\ Decodes
          /\ ~bot.commands[request.name].handle
          /\ ~bot.commands[request.name].paginate) =>
          result.err = "ErrUnrecognizedInteraction"

\* the values of the nodes of an option tree that are in focus
RECURSIVE FocusedValues(_)
FocusedValues(opts) ==
    IF opts = <<>>
    THEN {}
    ELSE (IF Head(opts).focused THEN {<<Head(opts).name, Head(opts).s>>} ELSE {})
         \cup FocusedValues(Head(opts).opts)
         \cup FocusedValues(Tail(opts))

\* the request at hand is an autocompletion that reached its command and
\* whose partial options decode
Completing ==
    /\ pc = "ApplicationCommandAutocomplete"
    /\ result.err # "dropped"
    /\ request.name \in DOMAIN bot.commands
    /\ Decodes

\* C19: an autocompletion whose decoded options have no field in focus, or
\* more than one, ends with ErrUnrecognizedInteraction and sends no
\* suggestion list; with exactly one field in focus the suggestions are
\* computed from the value of that field.
OneFocusedField ==
    Completing =>
        IF Cardinality(FocusedValues(request.options)) = 1
        THEN /\ result.err = "nil"
             /\ Len(effects) = 2
             /\ effects[2].op = "InteractionRespondChoices"
             /\ \E f \in FocusedValues(request.options) : effects[2].arg = f[2]
        ELSE /\ result.err = "ErrUnrecognizedInteraction"
             /\ Calls("InteractionRespondChoices") = 0

\* C20: handling an autocompletion leaves the registry, the models of the
\* guilds and users with their language and version, and the emoji cache
\* as they were, whoever sends the request.
AutocompleteKeepsState ==
    [][ pc' = "ApplicationCommandAutocomplete" => bot' = bot ]_vars

\* the errors of decoding and of dispatch
DecodeOrDispatch == {"ErrDecodeOption", "ErrEncodeOptions", "EOF", "ErrUnrecognizedInteraction"}

\* C21: a command or a button press that fails with a decode or dispatch
\* error is answered with a failure response; a failing autocompletion is
\* answered with nothing; no failure stops the dispatcher.
FailurePolicy ==
    /\ (pc \in {"ApplicationCommand", "MessageComponent"} /\ result.err \in DecodeOrDispatch) =>
          Calls("InteractionRespond") = 1
    /\ (pc = "ApplicationCommandAutocomplete" /\ result.err \notin {"nil", "dropped"}) =>
          /\ Calls("InteractionRespond") = 0
          /\ Calls("InteractionRespondChoices") = 0
    /\ (pc \in {"ApplicationCommand", "MessageComponent", "ApplicationCommandAutocomplete"}) =>
          result.err # "panic"

\* C22: no handling of a request, fresh, autocompletion or button press,
\* and no guild event adds, removes or replaces an entry of the registry,
\* which is also the map the responders hold for follow-up buttons.
RegistryReadOnly ==
    [][ bot'.commands = bot.commands ]_vars

\* a follow-up press has been served by a command looked up by name, and
\* the registry is the one the builder made
RegistryWitness ==
    /\ pc = "MessageComponent"
    /\ result.err = "nil"
    /\ Routed(message, request.customID) = "weak"
    /\ Calls("handle") = 1
    /\ bot.commands = Registry(bot.commands["learnset"])

\* C23: the emoji table is filled under a guard, completely and before any
\* handler reads it: no handler reads it while a goroutine stores into it
\* or finds an emoji of the resource guild missing, and it is not written
\* after its first read.
TableGuarded ==
    /\ ~startup.torn
    /\ startup.seen \in {"none", "nil"}
    /\ ~startup.late

\* C29: every goroutine of the guild handler that reaches its send on
\* "connected" for the resource guild completes it and stores the emojis of
\* the guild, before and after the timeout and on every repeat.
CallbackCompletes ==
    \A e \in 1..MaxEvents :
        [](startup.cb[e].pc = "send" => <>(startup.cb[e].pc = "done"))

\* C30: every model in bot.models has its language and its version set,
\* also after an addModel in which setting one of them failed.
ModelsComplete ==
    \A id \in IDs :
        bot.models[id].present =>
            /\ bot.models[id].language # ""
            /\ bot.models[id].version # ""

\* the outcome of a press is the outcome o of a command
SameOutcome(o) ==
    /\ result'.err = o.err
    /\ Len(effects') = Len(o.effects)
    /\ \A i \in 1..Len(o.effects) :
          /\ effects'[i].op = o.effects[i].op
          /\ effects'[i].arg = o.effects[i].arg
    /\ message'.name = o.message.name
    /\ message' = o.message
    /\ bot' = o.bot

\* C24: a press whose custom ID carries a prefix naming a command is handled
\* by that command of the registry, a press without prefix by the command
\* that rendered the message, and a press whose name is not in the registry
\* reaches no handler: nothing is sent and nothing changes.
PressRouting ==
    [][ (/\ pc' = "MessageComponent"
         /\ bot.models[request'.sender.id].present
         /\ ButtonFollowUp(request'.customID).err = "nil") =>
            LET fu == ButtonFollowUp(request'.customID)
                name == IF fu.v # <<>> THEN NameOf(fu.v[1]) ELSE message.name
            IN  IF name \in DOMAIN bot.commands
                THEN \E fails \in BOOLEAN :
                        SameOutcome(ButtonCmd(bot.commands[name], bot, request'.sender.id, message,
                                              fu.rest, [rows |-> rows, fails |-> fails], BotNonce))
                ELSE /\ result'.err = "dropped"
                     /\ effects' = <<>>
                     /\ message' = message
                     /\ bot' = bot
      ]_vars

\* a press whose prefix names a command that is no longer in the registry
\* was dropped
RoutingWitness ==
    /\ pc = "MessageComponent"
    /\ ButtonFollowUp(request.customID).err = "nil"
    /\ ButtonFollowUp(request.customID).v = <<NameBytes("removed")>>
    /\ bot.models[request.sender.id].present
    /\ result.err = "dropped"
    /\ effects = <<>>

\* the number of bytes the wire format gives a value of type t
RECURSIVE WireSize(_, _), FieldsSize(_, _, _)
WireSize(t, v) ==
    CASE t.k = "int" -> 4
      [] t.k = "bool" -> 1
      [] t.k = "string" -> 1 + Len(v)
      [] t.k = "ptr" -> IF v = <<>> THEN 1 ELSE 1 + WireSize(t.e[1], v[1])
      [] t.k = "struct" -> FieldsSize(t, v, Len(t.e))

FieldsSize(t, v, n) ==
    IF n = 0 THEN 0 ELSE FieldsSize(t, v, n - 1) + WireSize(t.e[n], v[n])

\* the encodings of the first n fields of a struct, one after the other
RECURSIVE FieldsWire(_, _, _)
FieldsWire(t, v, n) ==
    IF n = 0 THEN <<>> ELSE FieldsWire(t, v, n - 1) \o marshal(t.e[n], v[n]).b

\* C25: wire sizes: an int takes 4 bytes (big-endian, signed), a bool 1, a
\* string of n <= 255 bytes 1 + n, a nil pointer 1, a pointer to a value 1
\* plus the encoding of the value, and a struct is the concatenation of the
\* encodings of its fields in declared order, with nothing else.
WireSizes ==
    (pc = "marshalled" /\ Fits(TypeOf(typ), structure)) =>
        /\ result.err = "nil"
        /\ Len(data) = WireSize(TypeOf(typ), structure)
        /\ data = FieldsWire(TypeOf(typ), structure, Len(TypeOf(typ).e))
        /\ (typ.a = "paginator" /\ InRange(TypeOf(typ), structure)) =>
              /\ getInt32(SubSeq(data, Len(data) - 7, Len(data) - 4)) = structure[2][1].r
              /\ getInt32(SubSeq(data, Len(data) - 3, Len(data))) = structure[2][2].r

\* a followUp of the set command was marshalled: a language of 255 bytes
\* behind its pointer, and a nil generation
WireWitness ==
    /\ pc = "marshalled"
    /\ typ = [a |-> "followUp", T |-> "options"]
    /\ structure = << << << <<Rep(MaxUint8)>> >>, <<>> >> >>
    /\ result.err = "nil"
    /\ Len(data) = 1 + (1 + MaxUint8) + 1

\* the value with every int reduced modulo 2^32 into the signed 32-bit range
RECURSIVE Reduced(_, _)
Reduced(t, v) ==
    CASE t.k = "int" -> Small(v.r)
      [] t.k = "ptr" -> IF v = <<>> THEN <<>> ELSE <<Reduced(t.e[1], v[1])>>
      [] t.k = "struct" -> [i \in 1..Len(t.e) |-> Reduced(t.e[i], v[i])]
      [] OTHER -> v

\* C28: an int outside the signed 32-bit range is not rejected: encoding
\* returns no error and writes its low 32 bits, and decoding yields the int
\* reduced modulo 2^32 into the signed 32-bit range; an int inside the
\* range comes back as it was.
WideIntsWrap ==
    /\ (pc = "marshalled" /\ Fits(TypeOf(typ), structure)) =>
          /\ result.err = "nil"
          /\ typ.a = "paginator" =>
                /\ getInt32(SubSeq(data, Len(data) - 3, Len(data))) = structure[2][2].r
                /\ data[Len(data)] = structure[2][2].r % 256
    /\ (pc = "unmarshalled" /\ Fits(TypeOf(typ), structure)) =>
          /\ result.err = "nil"
          /\ result.v = Reduced(TypeOf(typ), structure)
          /\ InRange(TypeOf(typ), structure) => result.v = structure

\* a cursor whose offset is 2^31 and whose limit is -2^31 - 1 was encoded
\* and read back as -2^31 and 2^31 - 1
WideIntsWitness ==
    /\ pc = "unmarshalled"
    /\ typ.a = "paginator"
    /\ structure[2] = <<GoInt(-1, MaxInt32), GoInt(1, MinInt32)>>
    /\ result.err = "nil"
    /\ result.v[2] = <<Small(MaxInt32), Small(MinInt32)>>

\* C26: the query returns at most limit rows of the limit + 1 it asks for
\* from the offset, and for limit > 0 and offset >= 0 it reports hasNext
\* exactly when more than offset + limit rows match.
QueryPage ==
    (pc = "searched" /\ Limit(structure).r > 0 /\ Offset(structure).r >= 0) =>
        /\ result.shown <= Limit(structure).r
        /\ result.shown = Min(Limit(structure).r, Max(rows - Offset(structure).r, 0))
        /\ hasNext = (rows > Offset(structure).r + Limit(structure).r)

\* the second page of 3 was searched in a table of exactly 6 rows: a full
\* page and no next one
QueryWitness ==
    /\ pc = "searched"
    /\ rows = 6
    /\ Limit(structure) = Small(3)
    /\ Offset(structure) = Small(3)
    /\ result.shown = 3
    /\ ~hasNext

\* the cursor in the custom ID of button i of the message on display
Leads(i) == ReadCustomID(learnsetOptions, message.buttons[i].id).state

\* C27: paging makes progress and ends: with limit > 0, from offset 0,
\* every press of an enabled next adds limit to the offset, a page whose
\* next is disabled (or that has no controls) is reached after finitely
\* many presses, and on every page on the way home and prev, where enabled,
\* lead to offsets that are multiples of limit and not negative.
WalkEnds ==
    /\ [][ pc' = "PressNext" =>
              /\ result'.err = "nil"
              /\ Limit(message'.page) = Limit(message.page)
              /\ Offset(message'.page) = GoInt(0, Offset(message.page).r + Limit(message.page).r)
              /\ Offset(message'.page).r > Offset(message.page).r ]_vars
    /\ [](\A i \in {1, 2} :
            (pc # "invoked" /\ message.buttons # <<>> /\ ~message.buttons[i].disabled) =>
                /\ Offset(Leads(i)).q = 0
                /\ Offset(Leads(i)).r >= 0
                /\ Offset(Leads(i)).r % Limit(message.page).r = 0
                /\ Offset(Leads(i)).r < Offset(message.page).r)
    /\ [](CanPress => Offset(message.page).r + Limit(message.page).r < rows)
    /\ <>(pc # "invoked" /\ ~CanPress)

\* the last page of 6 rows in pages of 2 was reached by two presses of next
WalkWitness ==
    /\ pc = "PressNext"
    /\ rows = 6
    /\ Limit(message.page) = Small(2)
    /\ Offset(message.page) = Small(4)
    /\ message.shown = 2
    /\ message.buttons[3].disabled
    /\ ~message.buttons[2].disabled
    /\ Offset(Leads(2)) = Small(2)

====
